---- MODULE Spec2Model ----
(***************************************************************************)
(* Model of the SETTINGS conformance cases of h2spec (6_5.go): the eight   *)
(* behaviour functions of groups 6.5 and 6.5.2, each run by an invocation  *)
(* on its own connection.                                                  *)
(***************************************************************************)
EXTENDS Integers, Sequences, FiniteSets, TLC

\* ---------------------------------------------------------------- bounds
\* ctx.Timeout, in clock ticks
Timeout == 2
\* upper bound on the ReadFrame calls of one invocation
MaxReads == 3

\* ------------------------------------------------- constants of the code
FrameSettings == 4
FlagSettingsAck == 1
SettingMaxConcurrentStreams == 3
ErrCodeProtocol == 1
ErrCodeFlowControl == 3
ErrCodeFrameSize == 6
\* wildcard values of the Result model
FlagDefault == 0
ErrCodeDefault == 255

Invocations == {1, 2}
ConnIds == {1, 2}
CaseIds == 1..8
Byte == 0..255

\* ------------------------------------------------------------ the results
ResultFrame(t, fl, ec) == [v |-> "Frame", Type |-> t, Flags |-> fl, ErrCode |-> ec]
ResultConnectionClose == [v |-> "ConnectionClose"]
ResultTestTimeout == [v |-> "TestTimeout"]
ResultError(e) == [v |-> "Error", err |-> e]
\* the zero value of the named result "actual"
Nil == [v |-> "nil"]

\* ----------------------------------------------- errors ReadFrame returns
EOF_ == [kind |-> "EOF"]
TIMEOUT == [kind |-> "TIMEOUT"]
OpError(e) == [kind |-> "OpError", Err |-> e]
FramingError == [kind |-> "ConnectionError"]
ReadErrors == {EOF_, TIMEOUT, OpError("ECONNRESET"), OpError("EPIPE"), FramingError}

\* err == io.EOF || (ok && opErr.Err == syscall.ECONNRESET)
AnyOpErrorIsClosed(err) == err.kind \in {"EOF", "OpError"}
IsClosed(err) ==
    \/ err.kind = "EOF"
    \/ (err.kind = "OpError" /\ err.Err = "ECONNRESET")

\* ------------------------------------------------ frames the peer can send
FlagValues == {0, 1, 3}
Frame(t, fl) == [kind |-> "frame", Type |-> t, Flags |-> fl]
PeerFrames == {Frame(FrameSettings, fl) : fl \in FlagValues}
                \cup {Frame(6, fl) : fl \in {0, 1}}   \* PING

\* SettingsFrame.IsAck: Flags.Has(FlagSettingsAck)
IsAck(f) == (f.Flags \div FlagSettingsAck) % 2 = 1

\* ---------------------------------------------------------- wire encoding
BE16(n) == <<(n \div 256) % 256, n % 256>>
BE24(n) == <<(n \div 65536) % 256, (n \div 256) % 256, n % 256>>
\* a 32-bit value is kept as its two 16-bit halves
BE32(hi, lo) == BE16(hi) \o BE16(lo)
FrameHeader(len, t, fl, sid) == BE24(len) \o <<t, fl>> \o BE32(sid \div 65536, sid % 65536)

\* Framer.WriteSettings(settings...): one SETTINGS frame on stream 0
EncodeSettings(id, val) ==
    FrameHeader(6, FrameSettings, 0, 0) \o BE16(id) \o BE32(val \div 65536, val % 65536)

Uint16(b, at) == b[at] * 256 + b[at + 1]
Uint24(b, at) == b[at] * 65536 + b[at + 1] * 256 + b[at + 2]
HeaderLength(b) == Uint24(b, 1)
HeaderType(b) == b[4]
HeaderFlags(b) == b[5]
HeaderStreamHi(b) == Uint16(b, 6) % 32768
HeaderStreamLo(b) == Uint16(b, 8)
PayloadOf(b) == SubSeq(b, 10, Len(b))

\* ------------------------------------- the octets of the negative cases
\* the string literals handed to fmt.Fprintf, in source order, per case
WritesOnStreamOne(c) ==
    IF c = 2 THEN << <<0, 0, 1, 4, 1, 0, 0, 0, 1, 0>> >>
    ELSE IF c \in 3..8 THEN << <<0, 0, 6, 4, 0, 0, 0, 0, 1>>, <<0, 3, 0, 0, 0, 100>> >>
    ELSE << >>
Writes(c) ==
    CASE c = 2 -> << <<0, 0, 1, 4, 1, 0, 0, 0, 0, 0>> >>
      [] c = 3 -> << <<0, 0, 6, 4, 0, 0, 0, 0, 3>>, <<0, 3, 0, 0, 0, 100>> >>
      [] c = 4 -> << <<0, 0, 2, 4, 0, 0, 0, 0, 0>>, <<0, 0, 1>> >>
      [] c = 5 -> << <<0, 0, 6, 4, 0, 0, 0, 0, 0>>, <<0, 2, 0, 0, 0, 2>> >>
      [] c = 6 -> << <<0, 0, 6, 4, 0, 0, 0, 0, 0>>, <<0, 4, 128, 0, 0, 0>> >>
      [] c = 7 -> << <<0, 0, 6, 4, 0, 0, 0, 0, 0>>, <<0, 5, 0, 0, 63, 255>> >>
      [] c = 8 -> << <<0, 0, 6, 4, 0, 0, 0, 0, 0>>, <<0, 5, 1, 0, 0, 0>> >>
      [] OTHER -> << >>

\* actualCodes of each negative case
AllFrameSizeCodes(c) == IF c \in 2..8 THEN <<ErrCodeFrameSize>> ELSE << >>
ActualCodes(c) ==
    CASE c = 2 -> <<ErrCodeFrameSize>>
      [] c = 3 -> <<ErrCodeProtocol>>
      [] c = 4 -> <<ErrCodeFrameSize>>
      [] c = 5 -> <<ErrCodeProtocol>>
      [] c = 6 -> <<ErrCodeFlowControl>>
      [] c = 7 -> <<ErrCodeProtocol>>
      [] c = 8 -> <<ErrCodeProtocol>>
      [] OTHER -> << >>

\* the error each case's description names
DescError(c) ==
    CASE c = 2 -> "FRAME_SIZE_ERROR"
      [] c = 3 -> "PROTOCOL_ERROR"
      [] c = 4 -> "FRAME_SIZE_ERROR"
      [] c = 5 -> "PROTOCOL_ERROR"
      [] c = 6 -> "FLOW_CONTROL_ERROR"
      [] c = 7 -> "PROTOCOL_ERROR"
      [] c = 8 -> "PROTOCOL_ERROR"
      [] OTHER -> "ACK"

ErrCodeName(ec) ==
    CASE ec = ErrCodeProtocol -> "PROTOCOL_ERROR"
      [] ec = ErrCodeFlowControl -> "FLOW_CONTROL_ERROR"
      [] ec = ErrCodeFrameSize -> "FRAME_SIZE_ERROR"
      [] OTHER -> "?"

\* ------------------------------------------------------------------ state
VARIABLES
    ctx,        \* the Context shared by all invocations
    procs,      \* the invocations the driver runs
    delays,     \* the latencies the peer may answer a read with
    tcase,      \* tcase[i]: the case invocation i runs
    pc,         \* pc[i]: position of invocation i in its behaviour function
    conn,       \* conn[i]: the local http2Conn of invocation i (0: none yet)
    nextConn,   \* the next connection the transport hands out
    connState,  \* connState[c]: "none", "open" or "closed"
    wire,       \* wire[c]: the octets handed to connection c after the open
    trace,      \* trace[c]: the calls made on connection c, in order
    expected,   \* expected[i]: the named result "expected"
    actual,     \* actual[i]: the named result "actual"
    codes,      \* codes[i]: the codes handed to TestConnectionError
    hist,       \* hist[i]: what the reads of invocation i returned, in order
    elapsed,    \* elapsed[i]: ticks since the first ReadFrame call
    wcount,     \* wcount[i]: the Fprintf calls made so far
    reg,        \* reg[b]: a call of SettingsTestGroup: position, tg, inner tg
    faults      \* whether a write to a connection may fail (TRUE) or succeed

vars == <<ctx, procs, delays, tcase, pc, conn, nextConn, connState, wire,
          trace, expected, actual, codes, hist, elapsed, wcount, reg, faults>>

Event(op, i) == [op |-> op, by |-> i, failed |-> FALSE]
\* a write call, with whether it returned an error
WriteEvent(i, f) == [op |-> "write", by |-> i, failed |-> f]

\* the value returned by WriteSettings and by fmt.Fprintf is dropped
ReportWriteError(act, f) == IF f THEN ResultError([kind |-> "WriteError"]) ELSE act
WriteResult(act, f) == act

\* the local variable http2Conn of the running closure
PackageConn(i) == IF nextConn > 1 THEN nextConn - 1 ELSE 0
Http2Conn(i) == conn[i]

\* the calls registered with defer, run on return and on panic alike
CloseOnReturnOnly(exit) == IF exit = "return" THEN <<"close">> ELSE << >>
DeferredCalls(exit) == <<"close">>

\* run the deferred calls of invocation i on connection c
RunDeferred(i, c, exit) ==
    IF DeferredCalls(exit) = << >>
    THEN UNCHANGED <<connState, trace>>
    ELSE /\ connState' = [connState EXCEPT ![c] = "closed"]
         /\ trace' = [trace EXCEPT ![c] = Append(@, Event("close", i))]

\* ----------------------------------------------------------- registration
\* the names given to NewTestCase, by case
CaseName(c) ==
    CASE c = 1 -> "Sends a SETTINGS frame"
      [] c = 2 -> "Sends a SETTINGS frame that is not a zero-length with ACK flag"
      [] c = 3 -> "Sends a SETTINGS frame with the stream identifier that is not 0x0"
      [] c = 4 -> "Sends a SETTINGS frame with a length other than a multiple of 6 octets"
      [] c = 5 -> "SETTINGS_ENABLE_PUSH (0x2): Sends the value other than 0 or 1"
      [] c = 6 -> "SETTINGS_INITIAL_WINDOW_SIZE (0x4): Sends the value above the maximum flow control window size"
      [] c = 7 -> "SETTINGS_MAX_FRAME_SIZE (0x5): Sends the value below the initial value"
      [] c = 8 -> "SETTINGS_MAX_FRAME_SIZE (0x5): Sends the value above the maximum allowed frame size"

\* NewTestGroup(id, title), and the zero value of a group
EmptyGroup(id, title) == [id |-> id, title |-> title, cases |-> << >>, groups |-> << >>]
NoGroup == EmptyGroup("", "")
\* NewTestCase(name, desc, run): run is the case whose behaviour function it holds
NewTestCase(c) == [name |-> CaseName(c), run |-> c]
\* tg.AddTestCase(tc) and tg.AddTestGroup(sub) append
AppendCase(g, tc) == [g EXCEPT !.cases = Append(@, tc)]
AppendGroup(g, sub) == [g EXCEPT !.groups = Append(@, sub)]

BuildOp(op, id, title, c) == [op |-> op, id |-> id, title |-> title, c |-> c]
\* the statements of SettingsTestGroup, the call of
\* DefinedSettingsParametersTestGroup unfolded where it is made, in source order
BuildStepSwapped(pos) ==
    CASE pos = 0 -> BuildOp("new", "6.5", "SETTINGS", 0)
      [] pos \in {1, 4} -> BuildOp("case", "", "", pos)
      [] pos \in {2, 3} -> BuildOp("case", "", "", 5 - pos)
      [] pos = 5 -> BuildOp("newsub", "6.5.2", "Defined SETTINGS Parameters", 0)
      [] pos \in 6..9 -> BuildOp("subcase", "", "", pos - 1)
      [] pos = 10 -> BuildOp("group", "", "", 0)
      [] pos = 11 -> BuildOp("return", "", "", 0)
BuildStep(pos) ==
    CASE pos = 0 -> BuildOp("new", "6.5", "SETTINGS", 0)
      [] pos \in 1..4 -> BuildOp("case", "", "", pos)
      [] pos = 5 -> BuildOp("newsub", "6.5.2", "Defined SETTINGS Parameters", 0)
      [] pos \in 6..9 -> BuildOp("subcase", "", "", pos - 1)
      [] pos = 10 -> BuildOp("group", "", "", 0)
      [] pos = 11 -> BuildOp("return", "", "", 0)
BuildDone == 12

\* one statement of a call of SettingsTestGroup on its locals
BuildApply(st) ==
    LET o == BuildStep(st.pos) IN
    [pos |-> st.pos + 1,
     tg  |-> CASE o.op = "new" -> EmptyGroup(o.id, o.title)
               [] o.op = "case" -> AppendCase(st.tg, NewTestCase(o.c))
               [] o.op = "group" -> AppendGroup(st.tg, st.sub)
               [] OTHER -> st.tg,
     sub |-> CASE o.op = "newsub" -> EmptyGroup(o.id, o.title)
               [] o.op = "subcase" -> AppendCase(st.sub, NewTestCase(o.c))
               [] OTHER -> st.sub]

RECURSIVE BuildRun(_)
BuildRun(st) == IF st.pos = BuildDone THEN st ELSE BuildRun(BuildApply(st))
NotCalled == [pos |-> 0, tg |-> NoGroup, sub |-> NoGroup]
\* the tree the driver walks: SettingsTestGroup() called to its end
Registered == BuildRun(NotCalled)

\* ------------------------------------------------------------------- Init
InitCommon ==
    /\ ctx = [Timeout |-> Timeout]
    /\ tcase \in [Invocations -> CaseIds]
    /\ pc = [i \in Invocations |-> "start"]
    /\ conn = [i \in Invocations |-> 0]
    /\ nextConn = 1
    /\ connState = [c \in ConnIds |-> "none"]
    /\ wire = [c \in ConnIds |-> << >>]
    /\ trace = [c \in ConnIds |-> << >>]
    /\ expected = [i \in Invocations |-> << >>]
    /\ actual = [i \in Invocations |-> Nil]
    /\ codes = [i \in Invocations |-> << >>]
    /\ hist = [i \in Invocations |-> << >>]
    /\ elapsed = [i \in Invocations |-> 0]
    /\ wcount = [i \in Invocations |-> 0]

\* one invocation, a peer that answers with any latency below the timeout,
\* a connection on which a write may fail
Init ==
    /\ InitCommon
    /\ procs = {1}
    /\ delays = 0..(Timeout - 1)
    /\ faults = {FALSE, TRUE}
    /\ tcase[2] = 1
    /\ reg = [b \in Invocations |-> Registered]

\* two invocations side by side (any pair of cases, up to the order of the
\* two invocations), a peer that answers at once
InitConc ==
    /\ InitCommon
    /\ procs = Invocations
    /\ delays = {0}
    /\ faults = {FALSE}
    /\ tcase[1] <= tcase[2]
    /\ reg = [b \in Invocations |-> Registered]

\* registration: two calls of SettingsTestGroup, no case run yet
InitBuild ==
    /\ InitCommon
    /\ procs = Invocations
    /\ delays = {0}
    /\ faults = {FALSE}
    /\ tcase = [i \in Invocations |-> 1]
    /\ reg = [b \in Invocations |-> NotCalled]

\* ---------------------------------------------------------------- actions
\* expected = ...; http2Conn := CreateHttp2Conn(ctx, true); defer Close()
CreateHttp2Conn(i) ==
    /\ pc[i] = "start"
    /\ nextConn \in ConnIds
    /\ conn' = [conn EXCEPT ![i] = nextConn]
    /\ nextConn' = nextConn + 1
    /\ connState' = [connState EXCEPT ![nextConn] = "open"]
    /\ trace' = [trace EXCEPT ![nextConn] = <<Event("open", i)>>]
    /\ expected' = [expected EXCEPT ![i] =
            IF tcase[i] = 1
            THEN <<ResultFrame(FrameSettings, FlagSettingsAck, ErrCodeDefault)>>
            ELSE << >>]
    /\ pc' = [pc EXCEPT ![i] = "write"]
    /\ UNCHANGED <<faults, reg, ctx, procs, delays, tcase, wire, actual, codes, hist, elapsed, wcount>>

\* http2Conn.fr.WriteSettings(Setting{SettingMaxConcurrentStreams, 100})
WriteSettings(i) ==
    /\ pc[i] = "write"
    /\ tcase[i] = 1
    /\ \E f \in faults :
         LET c == Http2Conn(i) IN
         /\ wire' = [wire EXCEPT ![c] = @ \o EncodeSettings(SettingMaxConcurrentStreams, 100)]
         /\ trace' = [trace EXCEPT ![c] = Append(@, WriteEvent(i, f))]
         /\ actual' = [actual EXCEPT ![i] = WriteResult(@, f)]
    /\ pc' = [pc EXCEPT ![i] = "loop"]
    /\ UNCHANGED <<faults, reg, ctx, procs, delays, tcase, conn, nextConn, connState,
                   expected, codes, hist, elapsed, wcount>>

\* fmt.Fprintf(http2Conn.conn, "..."): the next literal of a negative case
Fprintf(i) ==
    /\ pc[i] = "write"
    /\ tcase[i] # 1
    /\ wcount[i] < Len(Writes(tcase[i]))
    /\ \E f \in faults :
       LET c == Http2Conn(i)
           k == wcount[i] + 1
       IN /\ wire' = [wire EXCEPT ![c] = @ \o Writes(tcase[i])[k]]
          /\ trace' = [trace EXCEPT ![c] = Append(@, WriteEvent(i, f))]
          /\ actual' = [actual EXCEPT ![i] = WriteResult(@, f)]
          /\ wcount' = [wcount EXCEPT ![i] = k]
          /\ pc' = [pc EXCEPT ![i] =
                IF k = Len(Writes(tcase[i])) THEN "verify" ELSE "write"]
    /\ UNCHANGED <<faults, reg, ctx, procs, delays, tcase, conn, nextConn, connState,
                   expected, codes, hist, elapsed>>

\* the body of the read loop of "Sends a SETTINGS frame" on one read outcome
TimeoutAlways(act, o) ==
    IF o.kind = "frame"
    THEN IF o.Type = FrameSettings
         THEN ResultFrame(o.Type, o.Flags, ErrCodeDefault)
         ELSE ResultFrame(o.Type, FlagDefault, ErrCodeDefault)
    ELSE IF IsClosed(o) THEN ResultConnectionClose
    ELSE IF o = TIMEOUT THEN ResultTestTimeout
    ELSE ResultError(o)
TimeoutIgnored(act, o) ==
    IF o.kind = "frame"
    THEN IF o.Type = FrameSettings
         THEN ResultFrame(o.Type, o.Flags, ErrCodeDefault)
         ELSE ResultFrame(o.Type, FlagDefault, ErrCodeDefault)
    ELSE IF IsClosed(o) THEN ResultConnectionClose
    ELSE IF o = TIMEOUT THEN act
    ELSE ResultError(o)
\* the frame's own flags recorded for every frame type
RealFlagsAlways(act, o) ==
    IF o.kind = "frame" THEN ResultFrame(o.Type, o.Flags, ErrCodeDefault)
    ELSE IF IsClosed(o) THEN ResultConnectionClose
    ELSE IF o = TIMEOUT THEN (IF act = Nil THEN ResultTestTimeout ELSE act)
    ELSE ResultError(o)
\* the nil test made on a result shared by all runs instead of the local one
SharedNilCheck(act, o) ==
    IF o.kind = "frame"
    THEN IF o.Type = FrameSettings
         THEN ResultFrame(o.Type, o.Flags, ErrCodeDefault)
         ELSE ResultFrame(o.Type, FlagDefault, ErrCodeDefault)
    ELSE IF IsClosed(o) THEN ResultConnectionClose
    ELSE IF o = TIMEOUT
         THEN (IF \A j \in Invocations : actual[j] = Nil THEN ResultTestTimeout ELSE act)
    ELSE ResultError(o)
LoopActual(act, o) ==
    IF o.kind = "frame"
    THEN IF o.Type = FrameSettings
         THEN ResultFrame(o.Type, o.Flags, ErrCodeDefault)
         ELSE ResultFrame(o.Type, FlagDefault, ErrCodeDefault)
    ELSE IF IsClosed(o) THEN ResultConnectionClose
    ELSE IF o = TIMEOUT THEN (IF act = Nil THEN ResultTestTimeout ELSE act)
    ELSE ResultError(o)

\* break loop: on any error, and on a SETTINGS frame with ACK
BreaksOnAnyAck(o) == IF o.kind = "frame" THEN IsAck(o) ELSE TRUE
BreaksOnErrorOnly(o) == o.kind # "frame"
LoopBreaks(o) ==
    IF o.kind = "frame" THEN o.Type = FrameSettings /\ IsAck(o) ELSE TRUE

\* where the iteration goes: out of the loop, or to the next ReadFrame
RetryOnTimeout(o) ==
    IF o = TIMEOUT THEN "write" ELSE IF LoopBreaks(o) THEN "return" ELSE "loop"
AfterRead(o) == IF LoopBreaks(o) THEN "return" ELSE "loop"

\* the wait of one ReadFrame(ctx.Timeout) call
ReadDelays(o) == IF o = TIMEOUT THEN {ctx.Timeout} ELSE delays

\* f, err := http2Conn.ReadFrame(ctx.Timeout) and the rest of the iteration
ReadFrame(i) ==
    /\ pc[i] = "loop"
    /\ tcase[i] = 1
    /\ Len(hist[i]) < MaxReads
    /\ \E o \in PeerFrames \cup ReadErrors : \E d \in ReadDelays(o) :
         /\ hist' = [hist EXCEPT ![i] = Append(@, o)]
         /\ elapsed' = [elapsed EXCEPT ![i] = @ + d]
         /\ actual' = [actual EXCEPT ![i] = LoopActual(@, o)]
         /\ pc' = [pc EXCEPT ![i] = AfterRead(o)]
    /\ trace' = [trace EXCEPT ![Http2Conn(i)] = Append(@, Event("read", i))]
    /\ UNCHANGED <<faults, reg, ctx, procs, delays, tcase, conn, nextConn, connState, wire,
                   expected, codes, wcount>>

\* the decisive events of the verification helper
GoAwayType == FrameSettings + 3
GoAway(ec) == [kind |-> "frame", Type |-> GoAwayType, Flags |-> 0, ErrCode |-> ec]
HelperEvents == {GoAway(ec) : ec \in {ErrCodeProtocol, ErrCodeFlowControl, ErrCodeFrameSize}}
                  \cup ReadErrors

HelperExpected(cs) ==
    [k \in 1..Len(cs) |-> ResultFrame(GoAwayType, FlagDefault, cs[k])]
        \o <<ResultConnectionClose>>

HelperActual(o) ==
    IF o.kind = "frame" THEN ResultFrame(o.Type, FlagDefault, o.ErrCode)
    ELSE IF IsClosed(o) THEN ResultConnectionClose
    ELSE IF o = TIMEOUT THEN ResultTestTimeout
    ELSE ResultError(o)

RECURSIVE Repeat(_, _)
Repeat(e, n) == IF n = 0 THEN << >> ELSE <<e>> \o Repeat(e, n - 1)

\* actualCodes := ...; return TestConnectionError(ctx, http2Conn, actualCodes)
TestConnectionError(i) ==
    /\ pc[i] = "verify"
    /\ codes' = [codes EXCEPT ![i] = ActualCodes(tcase[i])]
    /\ \E o \in HelperEvents, n \in 1..MaxReads :
         /\ hist' = [hist EXCEPT ![i] = <<o>>]
         /\ trace' = [trace EXCEPT ![Http2Conn(i)] = @ \o Repeat(Event("read", i), n)]
         /\ actual' = [actual EXCEPT ![i] = HelperActual(o)]
    /\ expected' = [expected EXCEPT ![i] = HelperExpected(ActualCodes(tcase[i]))]
    /\ pc' = [pc EXCEPT ![i] = "return"]
    /\ UNCHANGED <<faults, reg, ctx, procs, delays, tcase, conn, nextConn, connState, wire,
                   elapsed, wcount>>

\* return expected, actual: the deferred Close runs, the results are handed out
Return(i) ==
    /\ pc[i] = "return"
    /\ RunDeferred(i, Http2Conn(i), "return")
    /\ pc' = [pc EXCEPT ![i] = "returned"]
    /\ UNCHANGED <<faults, reg, ctx, procs, delays, tcase, conn, nextConn, wire,
                   expected, actual, codes, hist, elapsed, wcount>>

\* a run-time panic after the open unwinds the function through its defers
Panic(i) ==
    /\ pc[i] \in {"write", "loop", "verify"}
    /\ RunDeferred(i, Http2Conn(i), "panic")
    /\ pc' = [pc EXCEPT ![i] = "panicked"]
    /\ UNCHANGED <<faults, reg, ctx, procs, delays, tcase, conn, nextConn, wire,
                   expected, actual, codes, hist, elapsed, wcount>>

Next ==
    \/ \E i \in procs : CreateHttp2Conn(i)
    \/ \E i \in procs : WriteSettings(i)
    \/ \E i \in procs : Fprintf(i)
    \/ \E i \in procs : ReadFrame(i)
    \/ \E i \in procs : TestConnectionError(i)
    \/ \E i \in procs : Return(i)
    \/ \E i \in procs : Panic(i)

\* the variables of the running cases
runVars == <<ctx, procs, delays, tcase, pc, conn, nextConn, connState, wire,
             trace, expected, actual, codes, hist, elapsed, wcount, faults>>

BuildAt(b, ops) ==
    /\ reg[b].pos < BuildDone
    /\ BuildStep(reg[b].pos).op \in ops
    /\ reg' = [reg EXCEPT ![b] = BuildApply(@)]
    /\ UNCHANGED runVars

\* tg := NewTestGroup(...), in SettingsTestGroup and in the function it calls
NewTestGroup(b) == BuildAt(b, {"new", "newsub"})
\* tg.AddTestCase(NewTestCase(...))
AddTestCase(b) == BuildAt(b, {"case", "subcase"})
\* tg.AddTestGroup(DefinedSettingsParametersTestGroup())
AddTestGroup(b) == BuildAt(b, {"group"})
\* return tg
ReturnGroup(b) == BuildAt(b, {"return"})

NextBuild ==
    \/ \E b \in procs : NewTestGroup(b)
    \/ \E b \in procs : AddTestCase(b)
    \/ \E b \in procs : AddTestGroup(b)
    \/ \E b \in procs : ReturnGroup(b)

Spec == Init /\ [][Next]_vars
SpecBuild == InitBuild /\ [][NextBuild]_vars
SpecConc == InitConc /\ [][Next]_vars

TypeOK ==
    /\ ctx = [Timeout |-> Timeout]
    /\ \A i \in Invocations : Len(hist[i]) <= MaxReads

\* ------------------------------------------------------- shared vocabulary
Last(h) == h[Len(h)]
Exited(i) == pc[i] \in {"returned", "panicked"}
\* the behaviour function has left its last statement
Returning(i) == pc[i] \in {"return", "returned"}
FourVariants == {"Frame", "ConnectionClose", "TestTimeout", "Error"}

\* the observation the frame switch records for a frame
Observation(f) ==
    IF f.Type = 4 THEN ResultFrame(4, f.Flags, 255) ELSE ResultFrame(f.Type, 0, 255)

\* variant-aware equality, wildcards of the expected side honoured
Matches(exp, act) ==
    /\ exp.v = act.v
    /\ exp.v = "Frame" =>
         /\ exp.Type = act.Type
         /\ (exp.Flags = FlagDefault \/ exp.Flags = act.Flags)
         /\ (exp.ErrCode = ErrCodeDefault \/ exp.ErrCode = act.ErrCode)
Passes(exps, act) == \E k \in 1..Len(exps) : Matches(exps[k], act)

\* a SETTINGS frame with ACK was read, and only frames were read before it
AckRead(h) ==
    \E k \in 1..Len(h) :
        /\ h[k].kind = "frame" /\ h[k].Type = 4 /\ h[k].Flags % 2 = 1
        /\ \A j \in 1..(k - 1) : h[j].kind = "frame"

\* ------------------------------------------------------------------ C1
\* C1: in "Sends a SETTINGS frame" the time since the first ReadFrame call
\* never exceeds ctx.Timeout: the deadline covers the whole read loop and is
\* not restarted by a received frame.
C1_WholeLoopDeadline ==
    \A i \in procs : tcase[i] = 1 => elapsed[i] <= ctx.Timeout

\* ------------------------------------------------------------------ C2
\* C2 (as stated): whenever the loop ends on TIMEOUT, the returned actual is
\* the Timeout variant, whatever was read before.
C2_TimeoutAlwaysTimeout ==
    \A i \in procs :
        (tcase[i] = 1 /\ Returning(i) /\ Last(hist[i]) = TIMEOUT)
            => actual[i] = ResultTestTimeout

\* C2 (amended): when the loop ends on TIMEOUT, actual is the Timeout variant
\* if no frame was read before, and otherwise stays the observation of the
\* last frame read.
C2_TimeoutKeepsLastFrame ==
    \A i \in procs :
        (tcase[i] = 1 /\ Returning(i) /\ Last(hist[i]) = TIMEOUT)
            => actual[i] = IF Len(hist[i]) = 1
                           THEN ResultTestTimeout
                           ELSE Observation(hist[i][Len(hist[i]) - 1])

C2_Witness ==
    \E i \in procs :
        /\ tcase[i] = 1 /\ pc[i] = "returned"
        /\ Len(hist[i]) >= 2 /\ Last(hist[i]) = TIMEOUT
        /\ actual[i].v = "Frame"

\* ------------------------------------------------------------------ C3
\* C3: when "Sends a SETTINGS frame" returns, actual is not nil and is one of
\* the four variants Frame, ConnectionClose, TestTimeout, Error.
C3_ExactlyOneActual ==
    \A i \in procs :
        (tcase[i] = 1 /\ Returning(i))
            => (actual[i] # Nil /\ actual[i].v \in FourVariants)

C3_Witness ==
    \E i \in procs :
        /\ tcase[i] = 1 /\ pc[i] = "returned"
        /\ hist[i] = <<TIMEOUT>> /\ actual[i] = ResultTestTimeout

\* ------------------------------------------------------------------ C4
\* C4: the valid case returns a SETTINGS observation with the ACK flag set
\* exactly when a SETTINGS frame with ACK was read before any terminal event;
\* when a terminal event came first, actual is not in the expected set
\* {Frame(SETTINGS, ACK, default code)}.
C4_AckIffAckRead ==
    \A i \in procs :
        (tcase[i] = 1 /\ Returning(i)) =>
            /\ expected[i] = <<ResultFrame(4, 1, 255)>>
            /\ (actual[i].v = "Frame" /\ actual[i].Type = 4 /\ actual[i].Flags % 2 = 1)
                   <=> AckRead(hist[i])
            /\ ~AckRead(hist[i]) => ~Passes(expected[i], actual[i])

C4_Witness ==
    \E i \in procs :
        /\ tcase[i] = 1 /\ pc[i] = "returned"
        /\ Len(hist[i]) >= 2 /\ AckRead(hist[i])
        /\ Passes(expected[i], actual[i])

\* ------------------------------------------------------------------ C5
\* C5: in each of the eight cases the connection opened by CreateHttp2Conn is
\* closed on every exit (return or panic after the open), and no read or
\* write on it follows the close.
C5_ClosedOnEveryExit ==
    /\ \A i \in procs :
          Exited(i) =>
            /\ connState[conn[i]] = "closed"
            /\ Last(trace[conn[i]]).op = "close"
    /\ \A c \in ConnIds : \A k \in 1..Len(trace[c]) :
          trace[c][k].op = "close" => k = Len(trace[c])

C5_Witness ==
    \E i \in procs :
        /\ pc[i] = "panicked" /\ tcase[i] \in 5..8 /\ wcount[i] = 1
        /\ connState[conn[i]] = "closed"

\* ------------------------------------------------------------------ C6
\* C6: in "Sends a SETTINGS frame" a failed read that is io.EOF or an OpError
\* wrapping ECONNRESET yields ConnectionClose; one that is none of EOF,
\* ECONNRESET, TIMEOUT yields Error carrying that very error; closure is never
\* reported as Error and no other error as ConnectionClose.
C6_ErrorClassification ==
    \A i \in procs :
        (tcase[i] = 1 /\ Returning(i) /\ Last(hist[i]).kind # "frame") =>
            LET e == Last(hist[i])
                closure == e \in {EOF_, OpError("ECONNRESET")}
            IN /\ closure => actual[i] = ResultConnectionClose
               /\ (~closure /\ e # TIMEOUT) => actual[i] = ResultError(e)
               /\ actual[i].v = "Error" => ~closure
               /\ actual[i].v = "ConnectionClose" => closure

C6_Witness ==
    \E i \in procs :
        /\ tcase[i] = 1 /\ pc[i] = "returned"
        /\ Len(hist[i]) >= 2 /\ Last(hist[i]) = OpError("ECONNRESET")
        /\ actual[i] = ResultConnectionClose

\* ------------------------------------------------------------------ C7
RECURSIVE Flatten(_)
Flatten(ss) == IF ss = << >> THEN << >> ELSE Head(ss) \o Flatten(Tail(ss))

\* what a case run alone writes, expects and returns on the reads h
SoloWire(c) ==
    IF c = 1 THEN <<0, 0, 6, 4, 0, 0, 0, 0, 0, 0, 3, 0, 0, 0, 100>>
    ELSE Flatten(Writes(c))
SoloExpected(c) ==
    IF c = 1 THEN <<ResultFrame(4, 1, 255)>>
    ELSE <<ResultFrame(7, 0, ActualCodes(c)[1]), ResultConnectionClose>>
SoloActual(c, h) ==
    LET l == Last(h) IN
    IF l.kind = "frame"
    THEN (IF c = 1 THEN Observation(l) ELSE ResultFrame(7, 0, l.ErrCode))
    ELSE IF l \in {EOF_, OpError("ECONNRESET")} THEN ResultConnectionClose
    ELSE IF l = TIMEOUT
         THEN (IF Len(h) = 1 THEN ResultTestTimeout ELSE Observation(h[Len(h) - 1]))
    ELSE ResultError(l)

\* C7: with two invocations interleaved on the shared Context, the Context is
\* never changed, every connection is opened, written, read and closed by one
\* invocation only, the invocations hold different connections, and each
\* invocation writes, expects and returns what the case does when run alone
\* against the same read outcomes.
C7_Isolation ==
    /\ ctx = [Timeout |-> Timeout]
    /\ \A c \in ConnIds : \A j, k \in 1..Len(trace[c]) : trace[c][j].by = trace[c][k].by
    /\ \A i, j \in procs : (i # j /\ conn[i] # 0 /\ conn[j] # 0) => conn[i] # conn[j]
    /\ \A i \in procs :
          Returning(i) =>
            /\ wire[conn[i]] = SoloWire(tcase[i])
            /\ expected[i] = SoloExpected(tcase[i])
            /\ actual[i] = SoloActual(tcase[i], hist[i])

C7_Witness ==
    /\ procs = {1, 2}
    /\ tcase[1] = 1 /\ pc[1] = "loop" /\ Len(hist[1]) = 2
    /\ tcase[2] = 5 /\ pc[2] = "return"
    /\ conn[1] = 2 /\ conn[2] = 1
    /\ connState[1] = "open" /\ connState[2] = "open"

\* ------------------------------------------------------------------ C8
\* C8: every frame a negative case writes is complete, the 24-bit length of
\* its header equal to the number of payload octets written after it; the
\* "length other than a multiple of 6 octets" case writes a SETTINGS header
\* (type 4, flags 0, stream 0) of length 3 and then 3 payload octets.
C8_HeaderLengthIsPayloadLength ==
    \A i \in procs :
        (tcase[i] # 1 /\ pc[i] = "verify") =>
            LET w == wire[conn[i]] IN
            /\ HeaderLength(w) = Len(PayloadOf(w))
            /\ tcase[i] = 4 =>
                 /\ HeaderType(w) = 4 /\ HeaderFlags(w) = 0
                 /\ HeaderStreamHi(w) = 0 /\ HeaderStreamLo(w) = 0
                 /\ HeaderLength(w) = 3 /\ Len(PayloadOf(w)) = 3

\* ------------------------------------------------------------------ C9
\* C9: the ACK case writes 00 00 01 04 01 00 00 00 00 and one payload octet
\* and hands {FRAME_SIZE_ERROR} to the helper; the non-zero-stream case writes
\* 00 00 06 04 00 00 00 00 03 then 00 03 00 00 00 64 and hands
\* {PROTOCOL_ERROR}; neither writes anything else.
C9_ByteExactNegativeCases ==
    \A i \in procs :
        Returning(i) =>
            LET w == wire[conn[i]] IN
            /\ tcase[i] = 2 =>
                 /\ Len(w) = 10
                 /\ SubSeq(w, 1, 9) = <<0, 0, 1, 4, 1, 0, 0, 0, 0>>
                 /\ w[10] \in Byte
                 /\ HeaderLength(w) = 1 /\ HeaderFlags(w) = FlagSettingsAck
                 /\ codes[i] = <<6>>
            /\ tcase[i] = 3 =>
                 /\ w = <<0, 0, 6, 4, 0, 0, 0, 0, 3, 0, 3, 0, 0, 0, 100>>
                 /\ HeaderStreamHi(w) = 0 /\ HeaderStreamLo(w) = 3
                 /\ codes[i] = <<1>>

C9_Witness ==
    \E i \in procs :
        /\ tcase[i] = 3 /\ pc[i] = "returned"
        /\ Len(wire[conn[i]]) = 15 /\ codes[i] # << >>

\* ------------------------------------------------------------------ C10
\* the {identifier, value} pairs of group 6.5.2, the value as two 16-bit halves
C10_Pair(c) ==
    CASE c = 5 -> [id |-> 2, hi |-> 0, lo |-> 2]
      [] c = 6 -> [id |-> 4, hi |-> 32768, lo |-> 0]
      [] c = 7 -> [id |-> 5, hi |-> 0, lo |-> 16383]
      [] c = 8 -> [id |-> 5, hi |-> 256, lo |-> 0]
C10_Code(c) == IF c = 6 THEN 3 ELSE 1

\* C10: each case of group 6.5.2 writes one SETTINGS frame with header
\* 00 00 06 04 00 00 00 00 00 and a single big-endian {identifier, value}
\* pair, (2, 2), (4, 0x80000000), (5, 0x3fff), (5, 0x01000000) in order, and
\* hands the helper the one code its description names: PROTOCOL_ERROR,
\* FLOW_CONTROL_ERROR, PROTOCOL_ERROR, PROTOCOL_ERROR.
C10_DefinedParameters ==
    \A i \in procs :
        (tcase[i] \in 5..8 /\ Returning(i)) =>
            LET w == wire[conn[i]]
                b == PayloadOf(w)
            IN /\ SubSeq(w, 1, 9) = <<0, 0, 6, 4, 0, 0, 0, 0, 0>>
               /\ Len(b) = 6
               /\ Uint16(b, 1) = C10_Pair(tcase[i]).id
               /\ Uint16(b, 3) = C10_Pair(tcase[i]).hi
               /\ Uint16(b, 5) = C10_Pair(tcase[i]).lo
               /\ codes[i] = <<C10_Code(tcase[i])>>
               /\ ErrCodeName(codes[i][1]) = DescError(tcase[i])

C10_Witness ==
    \E i \in procs :
        /\ tcase[i] = 6 /\ pc[i] = "returned"
        /\ codes[i] = <<ErrCodeFlowControl>>
        /\ Len(wire[conn[i]]) = 15

\* ------------------------------------------------------------------ C11
Rank(op) == CASE op = "open" -> 0 [] op = "write" -> 1 [] op = "read" -> 2 [] op = "close" -> 3
CountOp(t, op) == Cardinality({k \in 1..Len(t) : t[k].op = op})
\* the scenario writes of a case, in source order
ScenarioWrites(c) ==
    IF c = 1 THEN << <<0, 0, 6, 4, 0, 0, 0, 0, 0, 0, 3, 0, 0, 0, 100>> >> ELSE Writes(c)

\* C11: the calls of an invocation on its connection are one open, then the
\* scenario writes once each in source order, then the reads, then the close;
\* no read outcome leads to a second open or to writing the scenario again.
C11_SingleAttempt ==
    \A i \in procs :
        conn[i] # 0 =>
            LET t == trace[conn[i]]
                nw == CountOp(t, "write")
            IN /\ t[1].op = "open" /\ CountOp(t, "open") = 1
               /\ \A c \in ConnIds : c # conn[i] => trace[c] = << >>
               /\ \A j, k \in 1..Len(t) : j < k => Rank(t[j].op) <= Rank(t[k].op)
               /\ CountOp(t, "close") <= 1
               /\ nw <= Len(ScenarioWrites(tcase[i]))
               /\ wire[conn[i]] = Flatten(SubSeq(ScenarioWrites(tcase[i]), 1, nw))
               /\ (CountOp(t, "read") > 0 \/ Returning(i))
                      => nw = Len(ScenarioWrites(tcase[i]))

C11_Witness ==
    \E i \in procs :
        /\ tcase[i] = 1 /\ pc[i] = "returned"
        /\ Len(hist[i]) = 3 /\ Last(hist[i]) = TIMEOUT
        /\ Len(trace[conn[i]]) = 6

\* ------------------------------------------------------------------ C12
\* C12: two runs of "Sends a SETTINGS frame" on fresh connections that read
\* the same outcomes return the same expected set and the same actual, hence
\* the same verdict, whatever the other run has done before or meanwhile.
C12_SameReadsSameVerdict ==
    \A i, j \in procs :
        (/\ i # j /\ tcase[i] = 1 /\ tcase[j] = 1
         /\ Returning(i) /\ Returning(j) /\ hist[i] = hist[j]) =>
            /\ conn[i] # conn[j]
            /\ expected[i] = expected[j]
            /\ actual[i] = actual[j]
            /\ Passes(expected[i], actual[i]) <=> Passes(expected[j], actual[j])

C12_Witness ==
    /\ procs = {1, 2}
    /\ tcase[1] = 1 /\ tcase[2] = 1
    /\ pc[1] = "returned" /\ pc[2] = "returned"
    /\ hist[1] = hist[2] /\ Len(hist[1]) = 2 /\ Last(hist[1]) = TIMEOUT
    /\ conn[1] # conn[2]
    /\ actual[1] = actual[2] /\ actual[1].v = "Frame"

\* ------------------------------------------------------------------ C13
Runs(g) == [k \in 1..Len(g.cases) |-> g.cases[k].run]
IsPrefix(p, q) == Len(p) <= Len(q) /\ SubSeq(q, 1, Len(p)) = p
DistinctNames(g) ==
    /\ \A j, k \in 1..Len(g.cases) : j # k => g.cases[j].name # g.cases[k].name
    /\ \A j, k \in 1..Len(g.groups) : j # k => g.groups[j].id # g.groups[k].id

\* C13: a call of SettingsTestGroup appends in declaration order: "6.5" gets
\* its four cases in the order added and, at the end, the one child group
\* "6.5.2" with its four cases in the order added; sibling cases have distinct
\* names and sibling groups distinct identifiers; two calls, however they
\* interleave, return equal trees.
C13_TreeInDeclarationOrder ==
    /\ \A b \in procs :
          /\ IsPrefix(Runs(reg[b].tg), <<1, 2, 3, 4>>)
          /\ IsPrefix(Runs(reg[b].sub), <<5, 6, 7, 8>>)
          /\ DistinctNames(reg[b].tg) /\ DistinctNames(reg[b].sub)
          /\ reg[b].pos = BuildDone =>
               /\ reg[b].tg.id = "6.5"
               /\ Runs(reg[b].tg) = <<1, 2, 3, 4>>
               /\ Len(reg[b].tg.groups) = 1
               /\ reg[b].tg.groups[1].id = "6.5.2"
               /\ Runs(reg[b].tg.groups[1]) = <<5, 6, 7, 8>>
               /\ reg[b].tg.groups[1].groups = << >>
               /\ DistinctNames(reg[b].tg.groups[1])
    /\ \A a, b \in procs :
          (reg[a].pos = BuildDone /\ reg[b].pos = BuildDone) => reg[a].tg = reg[b].tg

C13_Witness ==
    /\ reg[1].pos = BuildDone /\ reg[2].pos = BuildDone
    /\ Len(reg[1].tg.cases) = 4 /\ Len(reg[2].tg.groups) = 1
    /\ Len(reg[2].tg.groups[1].cases) = 4

\* ------------------------------------------------------------------ C14
SettingsAck(o) == o.kind = "frame" /\ o.Type = 4 /\ o.Flags % 2 = 1
KeepsLooping(o) == o.kind = "frame" /\ ~SettingsAck(o)

\* C14: in "Sends a SETTINGS frame" the only frame that ends the read loop is
\* a SETTINGS frame with ACK: nothing is read after the first one, and a
\* SETTINGS frame without ACK or a frame of another type never ends the loop.
C14_OnlySettingsAckEndsLoop ==
    \A i \in procs :
        (tcase[i] = 1 /\ conn[i] # 0) =>
            /\ CountOp(trace[conn[i]], "read") = Len(hist[i])
            /\ \A k \in 1..(Len(hist[i]) - 1) : KeepsLooping(hist[i][k])
            /\ pc[i] = "loop" => \A k \in 1..Len(hist[i]) : KeepsLooping(hist[i][k])
            /\ (Returning(i) /\ Last(hist[i]).kind = "frame") =>
                  /\ SettingsAck(Last(hist[i]))
                  /\ actual[i] = ResultFrame(4, Last(hist[i]).Flags, 255)

C14_Witness ==
    \E i \in procs :
        /\ tcase[i] = 1 /\ pc[i] = "returned"
        /\ hist[i] = <<Frame(6, 1), Frame(4, 0), Frame(4, 1)>>

\* ------------------------------------------------------------------ C15
\* C15: while the loop runs, after a frame has been read actual is the
\* observation of that last frame alone: a SETTINGS frame gives its type and
\* its own flags, a frame of another type its type and FlagDefault, both with
\* the default error code.
C15_ActualIsLastFrame ==
    \A i \in procs :
        (tcase[i] = 1 /\ hist[i] # << >> /\ Last(hist[i]).kind = "frame") =>
            LET f == Last(hist[i]) IN
            /\ actual[i].v = "Frame"
            /\ actual[i].Type = f.Type
            /\ actual[i].ErrCode = ErrCodeDefault
            /\ actual[i].Flags = IF f.Type = FrameSettings THEN f.Flags ELSE FlagDefault

C15_Witness ==
    \E i \in procs :
        /\ tcase[i] = 1 /\ pc[i] = "loop"
        /\ hist[i] = <<Frame(4, 0), Frame(6, 1)>>
        /\ actual[i] = ResultFrame(6, 0, 255)

\* ------------------------------------------------------------------ C16
WritesOf(t) == {k \in 1..Len(t) : t[k].op = "write"}
AllWritesFailed(t) == WritesOf(t) # {} /\ \A k \in WritesOf(t) : t[k].failed

\* C16: a failed write is never reported: whatever the writes returned, actual
\* is still nil when the first read starts, the case goes on to its reads, and
\* the returned actual is fixed by the read outcomes alone; actual is an Error
\* only when a read returned that error.
C16_WriteErrorsDiscarded ==
    \A i \in procs :
        /\ hist[i] = << >> => actual[i] = Nil
        /\ Returning(i) =>
             /\ hist[i] # << >>
             /\ CountOp(trace[conn[i]], "read") > 0
             /\ actual[i] = SoloActual(tcase[i], hist[i])
             /\ actual[i].v = "Error" =>
                  (Last(hist[i]) \in ReadErrors /\ actual[i].err = Last(hist[i]))

C16_Witness ==
    \E i \in procs :
        /\ tcase[i] = 3 /\ pc[i] = "returned"
        /\ Cardinality(WritesOf(trace[conn[i]])) = 2
        /\ AllWritesFailed(trace[conn[i]])
        /\ actual[i].v = "Frame"
====
